---- MODULE Spec2Model ----
(***************************************************************************)
(* DXD CDN worker (src/src/index.js): the version-resolution and tiered    *)
(* cache-fill pipeline of one worker isolate serving concurrent requests.  *)
(* Strings are sequences of one-character strings, so that the code's      *)
(* string operations (length, substring, replace, endsWith, split) are     *)
(* computed, not assumed.  Every await on a collaborator (edge cache, R2,  *)
(* GitHub) is a step boundary; code between two awaits is one step.        *)
(***************************************************************************)
EXTENDS Integers, Sequences, FiniteSets, TLC

\* ------------------------------------------------------------- bounds
\* number of clock advances of CACHE_TTL / 2 a behaviour may take
MaxTicks == 2
\* number of requests a behaviour may start over its slots
MaxRequests == 2

\* concurrent execution contexts
Slots == {1, 2}

\* ------------------------------------------------------------- strings
Min2(a, b) == IF a < b THEN a ELSE b

\* String.prototype.substring(0, n)
Substring0(s, n) == SubSeq(s, 1, Min2(n, Len(s)))

\* String.prototype.endsWith
EndsWith(s, suf) ==
    /\ Len(s) >= Len(suf)
    /\ SubSeq(s, Len(s) - Len(suf) + 1, Len(s)) = suf

\* String.prototype.includes / indexOf: first position of pat in s, 0 if none
IndexOf(s, pat) ==
    LET hits == {i \in 1..(Len(s) - Len(pat) + 1) : SubSeq(s, i, i + Len(pat) - 1) = pat}
    IN IF hits = {} THEN 0 ELSE CHOOSE i \in hits : \A j \in hits : i <= j

\* String.prototype.replace(pat, '') with a string pattern: the FIRST occurrence only
RemoveFirst(s, pat) ==
    LET i == IndexOf(s, pat)
    IN IF i = 0 THEN s ELSE SubSeq(s, 1, i - 1) \o SubSeq(s, i + Len(pat), Len(s))

\* targetVersion.replace(/^v/, '')
StripV(s) == IF Len(s) > 0 /\ s[1] = "v" THEN Tail(s) ELSE s

\* String.prototype.toLowerCase on the alphabet the model uses
LowerChar(c) ==
    CASE c = "J" -> "j" [] c = "S" -> "s" [] c = "C" -> "c" [] OTHER -> c

ToLowerCase(s) == [i \in 1..Len(s) |-> LowerChar(s[i])]

\* filePath.split('.').pop(): what follows the last '.', the whole string if none
LastDotPart(s) ==
    LET dots == {i \in 1..Len(s) : s[i] = "."}
    IN IF dots = {} THEN s
       ELSE SubSeq(s, (CHOOSE i \in dots : \A j \in dots : j <= i) + 1, Len(s))

Extension(filePath) == ToLowerCase(LastDotPart(filePath))

DotMin == <<".", "m", "i", "n">>
DotMinJs == <<".", "m", "i", "n", ".", "j", "s">>
DotMinCss == <<".", "m", "i", "n", ".", "c", "s", "s">>
Slash == <<"/">>
ExtJs == <<"j", "s">>
ExtCss == <<"c", "s", "s">>

\* the version specifier with a branch of its own in getFileFromGitHub
LATEST == <<"l", "a", "t", "e", "s", "t">>

\* version.length >= 7 sends the specifier to the commit lookup
COMMIT_MIN_LEN == 7

\* CACHE_TTL, milliseconds
CACHE_TTL == 300000

\* ------------------------------------------------------------- the source host
\* the one repository requests name, and the owner-qualified memo key
Repo == <<"m">>

TagV1 == <<"v", "1">>
TagV2 == <<"v", "2">>
\* 8 characters, resolved by the commits API (a ref name; its SHA shares no prefix)
RefSpec == <<"d", "e", "v", "e", "l", "o", "p", "1">>
\* 7 characters, not a commit: the commits API answers 404
LongTag == <<"v", "1", ".", "0", ".", "1", "0">>
\* stands for the 40-character SHA the commits API returns for RefSpec
FullSha == <<"9", "f", "8", "e", "7", "d", "6", "c", "5", "b">>

\* a 5-character tag given without its 'v', and the same tag given with it (6 characters)
Tag5 == <<"1", ".", "0", ".", "1">>
Tag6 == <<"v", "1", ".", "0", ".", "1">>
\* a tag whose name begins with two 'v'
TagVV == <<"v", "v", "1">>

Versions == {LATEST, TagV1, RefSpec, LongTag}

PathJs == <<"a", ".", "j", "s">>
PathMinJs == <<"a", ".", "m", "i", "n", ".", "j", "s">>
Paths == {PathJs, PathMinJs}
\* a path that ends in '.min' without being a .min.js / .min.css request
PathJsMin == <<"a", ".", "j", "s", ".", "m", "i", "n">>
\* a .min.js request whose directory name contains '.min' as well
PathDirMin == <<"x", ".", "m", "i", "n", "/", "a", ".", "m", "i", "n", ".", "j", "s">>

\* the file part of the URL /m/v1/ : nothing after the last '/'
EmptyPath == <<>>

\* refs and files raw.githubusercontent.com serves for the repository
OriginRefs == {TagV1, TagV2, LongTag, FullSha, Tag6}
OriginFiles == {PathJs}

\* the bytes of a file at a ref; min marks terser / clean-css output
Content(ref, path) == [ref |-> ref, path |-> path, min |-> FALSE]

\* sources terser cannot parse (a pure function of the bytes)
Unparseable == {Content(LongTag, PathJs)}

\* request headers: Accept names a script/stylesheet type, Accept-Encoding has gzip.
\* The code reads them only through their conjunction (isScriptRequest && gzip).
HeaderSets == {[script |-> FALSE, gzip |-> FALSE], [script |-> TRUE, gzip |-> TRUE]}

\* the (version, path, ?download=true) URLs the clients of one behaviour request;
\* the query flag is part of the URL and so of the fast-tier key
Menus ==
    {{<<u[1], u[2], FALSE>>} : u \in (Versions \X Paths) \ {<<LATEST, PathMinJs>>}}
        \cup {{<<TagV1, PathJs, TRUE>>}}
        \cup {{<<TagV1, PathMinJs, FALSE>>, <<TagV1, PathJsMin, FALSE>>}}
        \cup {{<<TagV1, PathDirMin, FALSE>>}}
        \cup {{<<Tag5, PathJs, FALSE>>, <<Tag6, PathJs, FALSE>>}}
        \cup {{<<TagVV, PathJs, FALSE>>}}
        \cup {{<<TagV1, EmptyPath, FALSE>>}}

\* ------------------------------------------------------------- state
VARIABLES
    now,          \* Date.now(), milliseconds
    latest,       \* the repository's latest release tag at the source host
    publishedAt,  \* history: <<>> or <<the time at which the latest release changed>>
    GITHUB_CACHE, \* repo -> <<>> or <<[timestamp, data]>>
    bucket,       \* env.CDN_BUCKET: set of [key, data, form]
    edge,         \* caches.default: set of [url, resp]
    r2Pending,    \* durable puts handed to ctx.waitUntil, not yet settled
    edgePending,  \* cache.put calls handed to ctx.waitUntil, not yet settled
    req,          \* per execution context: the request's position and locals
    started,      \* requests started so far
    menu,         \* the URLs this deployment's clients ask for
    lastRel,      \* history: <<>> or <<the latest-started successful release lookup>>
    issued        \* history: [url, etag] of every 200 response returned

vars == <<now, latest, publishedAt, GITHUB_CACHE, bucket, edge, r2Pending, edgePending, req, started, menu, lastRel, issued>>

Url(in) == <<in.repo, in.version, in.path, in.download>>

Idle ==
    [pc |-> "idle",
     in |-> [repo |-> Repo, version |-> TagV1, path |-> PathJs, download |-> FALSE,
             script |-> FALSE, gzip |-> FALSE, inm |-> <<>>],
     filePath |-> <<>>, shouldMinify |-> FALSE,
     relFor |-> "none", relNow |-> 0, latestTag |-> <<>>,
     targetVersion |-> <<>>, actualVersion |-> <<>>, isCommit |-> FALSE, rawRef |-> <<>>,
     nRel |-> 0, nCommit |-> 0, nRaw |-> 0,
     lookups |-> <<>>, r2Object |-> <<>>, puts |-> <<>>, edgePut |-> FALSE, overlap |-> FALSE,
     minify |-> "none", compress |-> "none",
     tier |-> "none", exc |-> "none", resp |-> <<>>]

Init ==
    /\ now = 0
    /\ latest = TagV1
    /\ publishedAt = <<>>
    /\ GITHUB_CACHE = [r \in {Repo} |-> <<>>]
    /\ bucket = {}
    /\ edge = {}
    /\ r2Pending = {}
    /\ edgePending = {}
    /\ req = [s \in Slots |-> Idle]
    /\ started = 0
    /\ menu \in Menus
    /\ lastRel = <<>>
    /\ issued = {}

\* ------------------------------------------------------------- pure steps of the pipeline
\* fetch: shouldMinify / filePath from the inbound path
ShouldMinify(path) == EndsWith(path, DotMinJs) \/ EndsWith(path, DotMinCss)

FilePathOf(path) == IF ShouldMinify(path) THEN RemoveFirst(path, DotMin) ELSE path

\* the durable key `${repo}/${version}/${filePath}${shouldMinify ? '.min' : ''}`
R2Key(repo, version, filePath, shouldMinify) ==
    repo \o Slash \o version \o Slash \o filePath \o (IF shouldMinify THEN DotMin ELSE <<>>)

\* `"${repo}-${version}-${filePath}-${Date.now()}"`
MakeETag(repo, version, filePath, t) == <<repo, version, filePath, t>>

\* r2Object.httpEtag: the store's own tag of an object, fixed by what is stored
HttpEtag(obj) == <<"r2", obj.key, obj.data>>

\* extensions whose CONTENT_TYPES entry includes 'text', 'javascript' or 'json'
IsTextFile(ext) == ext \in {ExtJs, ExtCss}

\* minifyContent: terser / clean-css inside try-catch; the catch returns the input
MinifierThrows(content) == content \in Unparseable

\* the result of a call: a value, or an exception that leaves the callee
Returned(v) == [threw |-> FALSE, value |-> <<v>>]
Thrown == [threw |-> TRUE, value |-> <<>>]

\* mutant: the minifier's exception is not caught
MinifyContent_NoCatch(content, ext) ==
    IF ext \in {ExtJs, ExtCss}
    THEN IF MinifierThrows(content) THEN Thrown
         ELSE Returned([content EXCEPT !.min = TRUE])
    ELSE Returned(content)

MinifyContent(content, ext) ==
    IF ext \in {ExtJs, ExtCss}
    THEN IF MinifierThrows(content) THEN Returned(content)
         ELSE Returned([content EXCEPT !.min = TRUE])
    ELSE Returned(content)

\* isScriptRequest && Accept-Encoding includes gzip
WantsGzip(in) == in.script /\ in.gzip

NullBody == [kind |-> "null", data |-> <<>>, form |-> "plain"]
MessageBody == [kind |-> "message", data |-> <<>>, form |-> "plain"]
FileBody(data, form) == [kind |-> "file", data |-> <<data>>, form |-> form]

\* header values the handlers and fetch write on a file response
INLINE == "inline"
CACHE_CONTROL == "public, max-age=31536000, immutable"
ALLOW_ORIGIN == "*"

\* new Response(body, { status }): no header but the default content type
PlainResponse(status, body) ==
    [status |-> status, body |-> body, encoding |-> "none", etag |-> <<>>, cf |-> "none",
     disposition |-> "none", cacheControl |-> "none", allowOrigin |-> "none"]

\* a request leaves the pipeline with a response
Finish(rq, resp, exc) ==
    [rq EXCEPT !.pc = "done", !.resp = <<resp>>, !.exc = exc, !.relFor = "none", !.relNow = 0]

\* status of the inner catch (File not found) and of the outer catch (Error)
INNER_CATCH_STATUS == 404
OUTER_CATCH_STATUS == 500
\* status of the answer to a path without repo, version or file part
BAD_REQUEST_STATUS == 400

\* mutant: the inner catch answering with the outer catch's status
InnerCatch_As500(rq, exc) == Finish(rq, PlainResponse(OUTER_CATCH_STATUS, MessageBody), exc)

InnerCatch(rq, exc) == Finish(rq, PlainResponse(INNER_CATCH_STATUS, MessageBody), exc)
OuterCatch(rq, exc) == Finish(rq, PlainResponse(OUTER_CATCH_STATUS, MessageBody), exc)

\* mutant: every response that leaves fetch is put into the fast tier, errors included
Out_CachesEveryResponse(rq, r2P, edgeP) ==
    [rq |-> rq, r2P |-> r2P,
     edgeP |-> edgeP \cup (IF rq.pc = "done" THEN {[url |-> Url(rq.in), resp |-> rq.resp[1]]}
                           ELSE {})]

\* what a step hands back: the request's new locals and the background work it spawned
Out(rq, r2P, edgeP) == [rq |-> rq, r2P |-> r2P, edgeP |-> edgeP]

\* mutant: fetch passes the handler's response on without setting its caching headers
FinalResponse_NoCacheHeaders(rq, body, encoding, r2Hit, t) ==
    [status |-> 200, body |-> body, encoding |-> encoding,
     etag |-> <<MakeETag(rq.in.repo, rq.in.version, rq.filePath, t)>>,
     cf |-> IF r2Hit THEN "R2_HIT" ELSE "R2_MISS",
     disposition |-> INLINE,
     cacheControl |-> "none", allowOrigin |-> "none"]

\* mutant: fetch answers a conditional request 304 after the pipeline has run
FinalResponse_LateNotModified(rq, body, encoding, r2Hit, t) ==
    [status |-> IF rq.in.inm # <<>> THEN 304 ELSE 200, body |-> body, encoding |-> encoding,
     etag |-> <<MakeETag(rq.in.repo, rq.in.version, rq.filePath, t)>>,
     cf |-> IF r2Hit THEN "R2_HIT" ELSE "R2_MISS",
     disposition |-> INLINE,
     cacheControl |-> CACHE_CONTROL, allowOrigin |-> ALLOW_ORIGIN]

\* the response fetch returns for a handler's body
FinalResponse(rq, body, encoding, r2Hit, t) ==
    [status |-> 200, body |-> body, encoding |-> encoding,
     etag |-> <<MakeETag(rq.in.repo, rq.in.version, rq.filePath, t)>>,
     cf |-> IF r2Hit THEN "R2_HIT" ELSE "R2_MISS",
     disposition |-> INLINE,
     cacheControl |-> CACHE_CONTROL, allowOrigin |-> ALLOW_ORIGIN]

\* mutant: the response is returned without a cache.put being handed to ctx.waitUntil
Compose_NoEdgePut(rq, body, encoding, r2Hit, t) ==
    [rq |-> Finish(rq, FinalResponse(rq, body, encoding, r2Hit, t), "none"), edgeP |-> {}]

\* fetch, after handleR2Response / handleGitHubResponse: headers, ETag, edge put
Compose(rq, body, encoding, r2Hit, t) ==
    LET final == FinalResponse(rq, body, encoding, r2Hit, t)
    IN [rq |-> [Finish(rq, final, "none") EXCEPT !.edgePut = TRUE],
        edgeP |-> {[url |-> Url(rq.in), resp |-> final]}]

\* mutant: the durable-hit path compresses whatever the request headers say
HandleR2Response_AlwaysGzip(rq, obj, compressThrows, t) ==
    LET q == [rq EXCEPT !.tier = "durable", !.r2Object = <<obj>>]
        c == Compose([q EXCEPT !.compress = "ok"], FileBody(obj.data, "gzip"), "gzip", TRUE, t)
    IN IF compressThrows
       THEN Out(InnerCatch([q EXCEPT !.compress = "failed"], "compress"), {}, {})
       ELSE Out(c.rq, {}, c.edgeP)

\* handleR2Response: the stored bytes, gzip-compressed for script requests
HandleR2Response(rq, obj, compressThrows, t) ==
    LET q == [rq EXCEPT !.tier = "durable", !.r2Object = <<obj>>]
    IN IF WantsGzip(rq.in)
       THEN IF compressThrows
            THEN Out(InnerCatch([q EXCEPT !.compress = "failed"], "compress"), {}, {})
            ELSE LET c == Compose([q EXCEPT !.compress = "ok"],
                                  FileBody(obj.data, "gzip"), "gzip", TRUE, t)
                 IN Out(c.rq, {}, c.edgeP)
       ELSE LET c == Compose(q, FileBody(obj.data, obj.form), "none", TRUE, t)
            IN Out(c.rq, {}, c.edgeP)

\* mutant: a memo entry is returned whatever its age
MemoFresh_NeverExpires(memo, repo, t) == memo[repo] # <<>>

\* getLatestRelease, up to its fetch: a fresh memo entry is returned without a call
MemoFresh(memo, repo, t) ==
    /\ memo[repo] # <<>>
    /\ t - memo[repo][1].timestamp < CACHE_TTL

\* mutant: the 'v' is stripped from the cache version as it is from the fetch version
PrepareRaw_StripsActual(rq, target, actual, isCommit) ==
    LET tv == IF isCommit THEN target ELSE StripV(target)
    IN [rq EXCEPT !.pc = "raw", !.targetVersion = tv,
                  !.actualVersion = IF isCommit THEN actual ELSE StripV(actual),
                  !.isCommit = isCommit,
                  !.rawRef = IF isCommit THEN tv ELSE <<"v">> \o tv,
                  !.nRaw = @ + 1]

\* mutant: the raw-file URL carries the tag as it was given
PrepareRaw_TagAsGiven(rq, target, actual, isCommit) ==
    [rq EXCEPT !.pc = "raw", !.targetVersion = target, !.actualVersion = actual,
               !.isCommit = isCommit, !.rawRef = target, !.nRaw = @ + 1]

\* getFileFromGitHub, from the resolved version to the raw-file fetch being sent
PrepareRaw(rq, target, actual, isCommit) ==
    LET tv == IF isCommit THEN target ELSE StripV(target)
    IN [rq EXCEPT !.pc = "raw", !.targetVersion = tv, !.actualVersion = actual,
                  !.isCommit = isCommit,
                  !.rawRef = IF isCommit THEN tv ELSE <<"v">> \o tv,
                  !.nRaw = @ + 1]

\* mutant: the release tag loses its 'v' before it becomes the cache version
AfterRelease_StripsTag(rq, tag) ==
    IF rq.relFor = "fetch"
    THEN [rq EXCEPT !.pc = "r2latest", !.latestTag = <<tag>>]
    ELSE PrepareRaw(rq, tag, StripV(tag), FALSE)

\* the code that follows `await getLatestRelease(...)` at its two call sites
AfterRelease(rq, tag) ==
    IF rq.relFor = "fetch"
    THEN [rq EXCEPT !.pc = "r2latest", !.latestTag = <<tag>>]
    ELSE PrepareRaw(rq, tag, tag, FALSE)

\* mutant: a failed release lookup falls back to the memo entry, whatever its age
ReleaseFailed_StaleFallback(rq, memo) ==
    IF memo[rq.in.repo] # <<>>
    THEN AfterRelease(rq, memo[rq.in.repo][1].data)
    ELSE InnerCatch(rq, "release")

\* getLatestRelease: `if (!response.ok) throw`, before any GITHUB_CACHE access; the
\* exception leaves both callers and reaches fetch's inner catch
ReleaseFailed(rq, memo) == InnerCatch(rq, "release")

\* getLatestRelease called: memo hit continues at once, otherwise the call is sent
CallRelease(rq, for, memo, t) ==
    LET q == [rq EXCEPT !.relFor = for]
    IN IF MemoFresh(memo, q.in.repo, t)
       THEN AfterRelease(q, memo[q.in.repo][1].data)
       ELSE [q EXCEPT !.pc = "relwait", !.relNow = t, !.nRel = @ + 1]

\* mutant: the commit lookup is tried from 6 characters on
StartGitHub_SixIsEnough(rq, memo, t) ==
    IF rq.in.version = LATEST
    THEN CallRelease(rq, "gh", memo, t)
    ELSE IF Len(rq.in.version) >= COMMIT_MIN_LEN - 1
         THEN [rq EXCEPT !.pc = "commit", !.nCommit = @ + 1]
         ELSE PrepareRaw(rq, rq.in.version, rq.in.version, FALSE)

\* getFileFromGitHub, the version branches
StartGitHub(rq, memo, t) ==
    IF rq.in.version = LATEST
    THEN CallRelease(rq, "gh", memo, t)
    ELSE IF Len(rq.in.version) >= COMMIT_MIN_LEN
         THEN [rq EXCEPT !.pc = "commit", !.nCommit = @ + 1]
         ELSE PrepareRaw(rq, rq.in.version, rq.in.version, FALSE)

\* mutant: a failed commit lookup is not caught
AfterCommit_NoCatch(rq, found) ==
    IF found # <<>>
    THEN PrepareRaw(rq, found[1], Substring0(rq.in.version, COMMIT_MIN_LEN), TRUE)
    ELSE InnerCatch(rq, "commit")

\* mutant: the cache version is cut from the resolved SHA, not from the input
AfterCommit_ShaPrefix(rq, found) ==
    IF found # <<>>
    THEN PrepareRaw(rq, found[1], Substring0(found[1], COMMIT_MIN_LEN), TRUE)
    ELSE PrepareRaw(rq, rq.in.version, rq.in.version, FALSE)

\* mutant: a failed commit lookup is sent once more before the fallback
AfterCommit_RetriesOnce(rq, found) ==
    IF found # <<>>
    THEN PrepareRaw(rq, found[1], Substring0(rq.in.version, COMMIT_MIN_LEN), TRUE)
    ELSE IF rq.nCommit < 2
         THEN [rq EXCEPT !.nCommit = @ + 1]
         ELSE PrepareRaw(rq, rq.in.version, rq.in.version, FALSE)

\* getFileFromGitHub: try { getCommit } catch { literal tag }; found is <<sha>> or <<>>
AfterCommit(rq, found) ==
    IF found # <<>>
    THEN PrepareRaw(rq, found[1], Substring0(rq.in.version, COMMIT_MIN_LEN), TRUE)
    ELSE PrepareRaw(rq, rq.in.version, rq.in.version, FALSE)

\* mutant: the fill returns without handing a durable put to ctx.waitUntil
DurablePutTasks_Dropped(rq, processed) == {}

\* mutant: the durable put carries what the response carries, gzip bytes for a script request
DurablePutTasks_Compressed(rq, processed) ==
    {[key |-> R2Key(rq.in.repo, rq.actualVersion, rq.filePath, rq.shouldMinify),
      data |-> processed, form |-> IF WantsGzip(rq.in) THEN "gzip" ELSE "plain"]}

\* getFileFromGitHub: the durable put handed to ctx.waitUntil; it carries
\* processedContent, the value compress is given later, not the value it returns
DurablePutTasks(rq, processed) ==
    {[key |-> R2Key(rq.in.repo, rq.actualVersion, rq.filePath, rq.shouldMinify),
      data |-> processed, form |-> "plain"]}

\* getFileFromGitHub + handleGitHubResponse, from the raw response to the return
FillFromOrigin(rq, compressThrows, t) ==
    LET content == Content(rq.rawRef, rq.filePath)
        ext == Extension(rq.filePath)
        minified == IF rq.shouldMinify THEN MinifyContent(content, ext) ELSE Returned(content)
        processed == IF minified.threw THEN content ELSE minified.value[1]
        put == DurablePutTasks(rq, processed)
        q == [rq EXCEPT !.tier = "origin",
                        !.minify = IF ~rq.shouldMinify THEN "none"
                                   ELSE IF ext \in {ExtJs, ExtCss} /\ MinifierThrows(content)
                                        THEN "failed" ELSE "ok",
                        !.puts = IF put = {} THEN @ ELSE Append(@, (CHOOSE x \in put : TRUE).key)]
    IN IF minified.threw
       THEN Out(InnerCatch([rq EXCEPT !.tier = "origin", !.minify = "failed"], "minify"), {}, {})
       ELSE
       IF WantsGzip(rq.in)
       THEN IF compressThrows
            THEN Out(InnerCatch([q EXCEPT !.compress = "failed"], "compress"), put, {})
            ELSE LET c == Compose([q EXCEPT !.compress = "ok"],
                                  FileBody(processed, IF IsTextFile(ext) THEN "gzipText" ELSE "gzip"),
                                  "gzip", FALSE, t)
                 IN Out(c.rq, put, c.edgeP)
       ELSE LET c == Compose(q, FileBody(processed, "plain"), "none", FALSE, t)
            IN Out(c.rq, put, c.edgeP)

\* ------------------------------------------------------------- collaborators
\* env.CDN_BUCKET.get(key)
BucketGet(key) == {o \in bucket : o.key = key}

\* env.CDN_BUCKET.put(key, data): last write wins
BucketPut(b, key, data, form) ==
    {o \in b : o.key # key} \cup {[key |-> key, data |-> data, form |-> form]}

\* cache.match(cacheKey) / cache.put(cacheKey, response)
EdgeMatch(url) == {e \in edge : e.url = url}

EdgePut(c, url, resp) == {e \in c : e.url # url} \cup {[url |-> url, resp |-> resp]}

\* GET /repos/{owner}/{repo}/commits/{ref}: the SHA, or nothing (response not ok)
CommitAtHost(version) == IF version = RefSpec THEN <<FullSha>> ELSE <<>>

\* raw.githubusercontent.com/{owner}/{repo}/{ref}/{filePath} answers 200
RawExists(ref, filePath) == ref \in OriginRefs /\ filePath \in OriginFiles

\* ------------------------------------------------------------- actions
IssuedBy(rq) ==
    IF rq.pc = "done" /\ rq.resp[1].status = 200
    THEN {[url |-> Url(rq.in), etag |-> rq.resp[1].etag[1]]}
    ELSE {}

\* mutant: a request that returns takes the background work still pending with it
Apply_CancelsOnReturn(r, out) ==
    /\ req' = [req EXCEPT ![r] = out.rq]
    /\ r2Pending' = IF out.rq.pc = "done" THEN out.r2P ELSE r2Pending \cup out.r2P
    /\ edgePending' = IF out.rq.pc = "done" THEN out.edgeP ELSE edgePending \cup out.edgeP
    /\ issued' = issued \cup IssuedBy(out.rq)

Apply(r, out) ==
    /\ req' = [req EXCEPT ![r] = out.rq]
    /\ r2Pending' = r2Pending \cup out.r2P
    /\ edgePending' = edgePending \cup out.edgeP
    /\ issued' = issued \cup IssuedBy(out.rq)

\* a client sends a request; If-None-Match, when sent, is an ETag it was given for the URL
Begin(r) ==
    /\ req[r].pc \in {"idle", "done"}
    /\ \A q \in Slots : q < r => req[q].pc # "idle"
    /\ started < MaxRequests
    /\ \E u \in menu, h \in HeaderSets :
         \E m \in {<<>>} \cup {<<i.etag>> : i \in {j \in issued : j.url = <<Repo, u[1], u[2], u[3]>>}} :
            req' = [req EXCEPT ![r] =
                      [Idle EXCEPT !.pc = "match",
                                   !.overlap = \E q \in Slots \ {r} : req[q].pc \notin {"idle", "done"},
                                   !.in = [repo |-> Repo, version |-> u[1], path |-> u[2],
                                           download |-> u[3],
                                           script |-> h.script, gzip |-> h.gzip, inm |-> m]]]
    /\ started' = started + 1
    /\ UNCHANGED <<now, latest, publishedAt, GITHUB_CACHE, bucket, edge, r2Pending, edgePending, menu, lastRel, issued>>

\* fetch: `await cache.match(cacheKey)` returns; hit, 304, 400 on a path with no file
\* part, or on to the durable get
FastMatch(r) ==
    LET rq == req[r]
        hits == EdgeMatch(Url(rq.in))
        parsed == [rq EXCEPT !.pc = "r2get",
                             !.shouldMinify = ShouldMinify(rq.in.path),
                             !.filePath = FilePathOf(rq.in.path),
                             !.lookups = <<R2Key(rq.in.repo, rq.in.version,
                                                 FilePathOf(rq.in.path), ShouldMinify(rq.in.path))>>]
    IN /\ rq.pc = "match"
       /\ \E throws \in BOOLEAN :
            Apply(r, Out(
              IF throws THEN OuterCatch(rq, "match")
              ELSE IF hits # {}
                   THEN LET e == CHOOSE x \in hits : TRUE
                            q == [rq EXCEPT !.tier = "fast"]
                        IN IF rq.in.inm # <<>> /\ e.resp.etag = rq.in.inm
                           THEN Finish(q, PlainResponse(304, NullBody), "none")
                           ELSE Finish(q, [e.resp EXCEPT !.cf = "HIT"], "none")
                   ELSE IF FilePathOf(rq.in.path) = <<>>
                        THEN Finish(rq, PlainResponse(BAD_REQUEST_STATUS, MessageBody), "none")
                        ELSE parsed, {}, {}))
       /\ UNCHANGED <<now, latest, publishedAt, GITHUB_CACHE, bucket, edge, started, menu, lastRel>>

\* mutant: the code after the durable get loops back to the get and never goes on
AfterDurable_Loops(rq, found, missOut, throws, compressThrows) == Out(rq, {}, {})

\* mutant: the code after the durable get goes on as on a miss whatever the get returned
AfterDurable_IgnoresHit(rq, found, missOut, throws, compressThrows) ==
    IF throws THEN Out(InnerCatch(rq, "r2get"), {}, {}) ELSE Out(missOut, {}, {})

\* what follows a durable get, by its result
AfterDurable(rq, found, missOut, throws, compressThrows) ==
    IF throws THEN Out(InnerCatch(rq, "r2get"), {}, {})
    ELSE IF found # {}
         THEN HandleR2Response(rq, CHOOSE o \in found : TRUE, compressThrows, now)
         ELSE Out(missOut, {}, {})

\* fetch: `await env.CDN_BUCKET.get(r2Path)` returns
R2Get(r) ==
    LET rq == req[r]
    IN /\ rq.pc = "r2get"
       /\ \E throws \in BOOLEAN, compressThrows \in BOOLEAN :
            Apply(r, AfterDurable(rq, BucketGet(rq.lookups[1]),
                                  IF rq.in.version = LATEST
                                  THEN CallRelease(rq, "fetch", GITHUB_CACHE, now)
                                  ELSE StartGitHub(rq, GITHUB_CACHE, now),
                                  throws, compressThrows))
       /\ UNCHANGED <<now, latest, publishedAt, GITHUB_CACHE, bucket, edge, started, menu, lastRel>>

\* getLatestRelease: the releases/latest response arrives
RelEnd(r) ==
    LET rq == req[r]
    IN /\ rq.pc = "relwait"
       /\ \E ok \in BOOLEAN :
            IF ok
            THEN /\ GITHUB_CACHE' = [GITHUB_CACHE EXCEPT ![rq.in.repo] =
                                        <<[timestamp |-> rq.relNow, data |-> latest]>>]
                 /\ lastRel' = IF lastRel # <<>> /\ lastRel[1].timestamp > rq.relNow
                               THEN lastRel
                               ELSE <<[timestamp |-> rq.relNow, data |-> latest]>>
                 /\ Apply(r, Out(AfterRelease(rq, latest), {}, {}))
            ELSE /\ GITHUB_CACHE' = GITHUB_CACHE
                 /\ lastRel' = lastRel
                 /\ Apply(r, Out(ReleaseFailed(rq, GITHUB_CACHE), {}, {}))
       /\ UNCHANGED <<now, latest, publishedAt, bucket, edge, started, menu>>

\* fetch: `await env.CDN_BUCKET.get(latestPath)` returns
R2GetLatest(r) ==
    LET rq == req[r]
        key == R2Key(rq.in.repo, rq.latestTag[1], rq.filePath, rq.shouldMinify)
        q == [rq EXCEPT !.lookups = Append(@, key)]
    IN /\ rq.pc = "r2latest"
       /\ \E throws \in BOOLEAN, compressThrows \in BOOLEAN :
            Apply(r, AfterDurable(q, BucketGet(key), StartGitHub(q, GITHUB_CACHE, now),
                                  throws, compressThrows))
       /\ UNCHANGED <<now, latest, publishedAt, GITHUB_CACHE, bucket, edge, started, menu, lastRel>>

\* getCommit returns or throws; getFileFromGitHub's try / catch
CommitLookup(r) ==
    LET rq == req[r]
        sha == CommitAtHost(rq.in.version)
    IN /\ rq.pc = "commit"
       /\ \E hostOk \in BOOLEAN :
            Apply(r, Out(AfterCommit(rq, IF hostOk THEN sha ELSE <<>>), {}, {}))
       /\ UNCHANGED <<now, latest, publishedAt, GITHUB_CACHE, bucket, edge, started, menu, lastRel>>

\* getFileFromGitHub: the raw-file response arrives
RawFetch(r) ==
    LET rq == req[r]
    IN /\ rq.pc = "raw"
       /\ \E hostOk \in BOOLEAN, compressThrows \in BOOLEAN :
            Apply(r, IF hostOk /\ RawExists(rq.rawRef, rq.filePath)
                     THEN FillFromOrigin(rq, compressThrows, now)
                     ELSE Out(InnerCatch(rq, "origin"), {}, {}))
       /\ UNCHANGED <<now, latest, publishedAt, GITHUB_CACHE, bucket, edge, started, menu, lastRel>>

\* mutant: a failed durable put turns the response of the request that sent it into an error
R2PutSettle_Surfaces ==
    \E t \in r2Pending, ok \in BOOLEAN :
       /\ r2Pending' = r2Pending \ {t}
       /\ bucket' = IF ok THEN BucketPut(bucket, t.key, t.data, t.form) ELSE bucket
       /\ req' = [r \in Slots |->
                    IF ~ok /\ req[r].pc = "done" /\ req[r].puts # <<>> /\ req[r].puts[1] = t.key
                    THEN Finish(req[r], PlainResponse(OUTER_CATCH_STATUS, MessageBody), "r2put")
                    ELSE req[r]]
       /\ UNCHANGED <<now, latest, publishedAt, GITHUB_CACHE, edge, edgePending, started, menu, lastRel, issued>>

\* the durable put inside ctx.waitUntil settles: stored, or failed and logged
R2PutSettle ==
    \E t \in r2Pending, ok \in BOOLEAN :
       /\ r2Pending' = r2Pending \ {t}
       /\ bucket' = IF ok THEN BucketPut(bucket, t.key, t.data, t.form) ELSE bucket
       /\ UNCHANGED <<now, latest, publishedAt, GITHUB_CACHE, edge, edgePending, req, started, menu, lastRel, issued>>

\* ctx.waitUntil(cache.put(cacheKey, response.clone())) settles
EdgePutSettle ==
    \E t \in edgePending, ok \in BOOLEAN :
       /\ edgePending' = edgePending \ {t}
       /\ edge' = IF ok THEN EdgePut(edge, t.url, t.resp) ELSE edge
       /\ UNCHANGED <<now, latest, publishedAt, GITHUB_CACHE, bucket, r2Pending, req, started, menu, lastRel, issued>>

\* time passes
Tick ==
    /\ now < MaxTicks * (CACHE_TTL \div 2)
    /\ now' = now + (CACHE_TTL \div 2)
    /\ UNCHANGED <<latest, publishedAt, GITHUB_CACHE, bucket, edge, r2Pending, edgePending, req, started, menu, lastRel, issued>>

\* the repository publishes a new release
PublishRelease ==
    /\ latest = TagV1
    /\ \E u \in menu : u[1] = LATEST
    /\ latest' = TagV2
    /\ publishedAt' = <<now>>
    /\ UNCHANGED <<now, GITHUB_CACHE, bucket, edge, r2Pending, edgePending, req, started, menu, lastRel, issued>>

Next ==
    \/ \E r \in Slots : Begin(r)
    \/ \E r \in Slots : FastMatch(r)
    \/ \E r \in Slots : R2Get(r)
    \/ \E r \in Slots : RelEnd(r)
    \/ \E r \in Slots : R2GetLatest(r)
    \/ \E r \in Slots : CommitLookup(r)
    \/ \E r \in Slots : RawFetch(r)
    \/ R2PutSettle
    \/ EdgePutSettle
    \/ Tick
    \/ PublishRelease

Spec == Init /\ [][Next]_vars

\* every awaited collaborator call returns or fails, and the runtime runs every
\* promise handed to ctx.waitUntil to its end
\* the one continuation of a request in flight: at most one of them is enabled
Resume(r) ==
    \/ FastMatch(r) \/ R2Get(r) \/ RelEnd(r)
    \/ R2GetLatest(r) \/ CommitLookup(r) \/ RawFetch(r)

Fairness ==
    /\ \A r \in Slots : WF_vars(Resume(r))
    /\ WF_vars(R2PutSettle)
    /\ WF_vars(EdgePutSettle)

\* the deployments the progress properties are checked on: one URL for each route
\* through the suspension points (release lookup, commit lookup, plain tag with
\* minification), the clock one step before the memo's expiry
LiveMenus == {{<<LATEST, PathJs, FALSE>>}, {<<RefSpec, PathJs, FALSE>>}, {<<TagV1, PathMinJs, FALSE>>}}

LiveInit ==
    /\ now = CACHE_TTL \div 2
    /\ latest = TagV1
    /\ publishedAt = <<>>
    /\ GITHUB_CACHE = [r \in {Repo} |-> <<>>]
    /\ bucket = {}
    /\ edge = {}
    /\ r2Pending = {}
    /\ edgePending = {}
    /\ req = [s \in Slots |-> Idle]
    /\ started = 0
    /\ menu \in LiveMenus
    /\ lastRel = <<>>
    /\ issued = {}

LiveSpec == LiveInit /\ [][Next]_vars /\ Fairness

\* ------------------------------------------------------------- claims
Done(r) == req[r].pc = "done"
Status(r) == req[r].resp[1].status
BodyOf(r) == req[r].resp[1].body

\* the durable key the request looked up first, and the one its fill wrote
FirstLookup(r) == req[r].lookups[1]
FillKey(r) == req[r].puts[1]

\* C1: a request whose If-None-Match is the ETag of an earlier 200 response for the
\* same URL (Begin offers no other value) and on which no collaborator threw is
\* answered 304 with a null body, whichever tier holds the content.
C1_ConditionalGets304 ==
    \A r \in Slots :
        (Done(r) /\ req[r].in.inm # <<>> /\ req[r].exc = "none")
            => (Status(r) = 304 /\ BodyOf(r) = NullBody)

MissedBothTiers(r) ==
    /\ Done(r) /\ req[r].lookups # <<>> /\ req[r].r2Object = <<>> /\ req[r].exc = "none"

\* C3: requests for the same content that each miss both tiers each send their own
\* raw-file fetch, each dispatch a durable put, and each complete with 200; two of
\* them filling the same durable key carry the same content.
C3_ConcurrentMissesEachFill ==
    \A r1 \in Slots :
        MissedBothTiers(r1) =>
            /\ req[r1].nRaw = 1 /\ Len(req[r1].puts) = 1
            /\ req[r1].tier = "origin" /\ Status(r1) = 200
            /\ \A r2 \in Slots \ {r1} :
                 (MissedBothTiers(r2) /\ FillKey(r2) = FillKey(r1))
                     => BodyOf(r2).data = BodyOf(r1).data

C3_Witness ==
    \E r1 \in Slots, r2 \in Slots :
        /\ r1 # r2 /\ MissedBothTiers(r1) /\ MissedBothTiers(r2)
        /\ req[r2].overlap /\ Url(req[r1].in) = Url(req[r2].in)
        /\ FillKey(r1) = FillKey(r2)
        /\ Status(r1) = 200 /\ Status(r2) = 200
        /\ req[r1].nRaw = 1 /\ req[r2].nRaw = 1

\* C4: when the minifier fails on a .min.js / .min.css request, the request is not
\* answered with an error on that account: it ends 200 carrying the origin content,
\* unminified (the only error it can still end in is a later compression failure).
C4_MinifierFailureServesOriginal ==
    \A r \in Slots :
        (Done(r) /\ req[r].minify = "failed")
            => \/ req[r].exc = "compress"
               \/ /\ Status(r) = 200
                  /\ BodyOf(r).kind = "file"
                  /\ BodyOf(r).data = <<[ref |-> req[r].rawRef, path |-> req[r].filePath, min |-> FALSE]>>

C4_Witness ==
    \E r \in Slots :
        /\ Done(r) /\ req[r].shouldMinify /\ req[r].minify = "failed"
        /\ Status(r) = 200 /\ BodyOf(r).form = "plain" /\ ~BodyOf(r).data[1].min

\* the version segment of a rendered durable key: what lies between its first two '/'
KeySegment2(key) ==
    LET s1 == CHOOSE i \in 1..Len(key) : key[i] = "/" /\ \A j \in 1..(i - 1) : key[j] # "/"
        rest == SubSeq(key, s1 + 1, Len(key))
        s2 == CHOOSE i \in 1..Len(rest) : rest[i] = "/" /\ \A j \in 1..(i - 1) : rest[j] # "/"
    IN SubSeq(rest, 1, s2 - 1)

\* the commit lookup of the request has come back, and failed
CommitLookupFailed(r) ==
    req[r].nCommit = 1 /\ req[r].pc # "commit" /\ ~req[r].isCommit

\* C5: a specifier of length >= 7 whose commit lookup fails is treated as a literal
\* tag: the raw-file fetch is sent for it, the durable key's version segment is the
\* specifier verbatim, and the request does not fail on the resolution.
C5_FailedCommitLookupFallsBackToTag ==
    \A r \in Slots :
        CommitLookupFailed(r) =>
            /\ Len(req[r].in.version) >= 7 /\ req[r].in.version # LATEST
            /\ req[r].actualVersion = req[r].in.version
            /\ req[r].nRaw = 1
            /\ req[r].rawRef = IF req[r].in.version[1] = "v" THEN req[r].in.version
                               ELSE <<"v">> \o req[r].in.version
            /\ req[r].puts # <<>> => KeySegment2(FillKey(r)) = req[r].in.version
            /\ Done(r) => req[r].exc \in {"none", "origin", "compress"}

C5_Witness ==
    \E r \in Slots :
        /\ CommitLookupFailed(r) /\ Done(r) /\ Status(r) = 200
        /\ KeySegment2(FillKey(r)) = LongTag

ShortVTagMin(r) ==
    /\ req[r].lookups # <<>>
    /\ Len(req[r].in.version) < 7 /\ req[r].in.version[1] = "v"
    /\ EndsWith(req[r].in.path, DotMinJs)

C8_FreshLookupIssuesNoCall ==
    [][ (lastRel # <<>> /\ now - lastRel[1].timestamp < CACHE_TTL)
            => \A r \in Slots : req'[r].nRel <= req[r].nRel ]_vars

\* C9: a failed latest-release lookup and a non-success raw-file response are both
\* answered 404.
C9_ReleaseAndOriginFailuresAre404 ==
    \A r \in Slots :
        (Done(r) /\ req[r].exc \in {"release", "origin"})
            => (Status(r) = 404 /\ BodyOf(r).kind = "message")

C9_Witness ==
    \E r1 \in Slots, r2 \in Slots :
        /\ Done(r1) /\ req[r1].exc = "release" /\ req[r1].nRel >= 1 /\ Status(r1) = 404
        /\ Done(r2) /\ req[r2].exc = "origin" /\ req[r2].nRaw = 1 /\ Status(r2) = 404

\* C10 (as stated): an exception that is neither a release-lookup failure nor an
\* origin non-success (nor a minification / compression failure) is answered 500.
C10_OtherExceptionsAre500 ==
    \A r \in Slots :
        (Done(r) /\ req[r].exc \in {"match", "r2get"}) => Status(r) = 500

\* C11: a request on which the fast-tier match or the durable-tier get failed is not
\* answered with a 4xx / 5xx on that account: it goes on as on a miss in that tier.
C11_TierFailureIsMiss ==
    \A r \in Slots :
        (Done(r) /\ req[r].exc \in {"match", "r2get"}) => Status(r) < 400

\* C12: the step in which a request hands its durable put to the background is the
\* step in which it returns its response (it does not wait for the put), and the step
\* in which a durable put settles, stored or failed, changes no request's response.
C12_DurableWriteNeverTouchesResponse ==
    [][ /\ \A r \in Slots :
             Len(req'[r].puts) > Len(req[r].puts)
                 => /\ req'[r].pc = "done"
                    /\ \E t \in r2Pending' : t.key = req'[r].puts[1]
        /\ (r2Pending' # r2Pending /\ r2Pending' \subseteq r2Pending) => req' = req
      ]_vars

\* a request answered 200 whose durable put has settled and stored nothing
C12_Witness ==
    \E r \in Slots :
        /\ Done(r) /\ Status(r) = 200 /\ req[r].puts # <<>>
        /\ ~\E t \in r2Pending : t.key = FillKey(r)
        /\ BucketGet(FillKey(r)) = {}

\* C13: the step that returns a 200 response after a fast-tier miss, from the durable
\* tier or from an origin fill, hands a fast-tier put of that very response under the
\* inbound URL to the background; a put that is applied stores it under that URL; and
\* a request whose match finds an entry for its URL is answered from the fast tier.
C13_Every200DispatchesEdgePut ==
    [][ /\ \A r \in Slots :
             (req[r].pc # "done" /\ req'[r].pc = "done"
                /\ req'[r].resp[1].status = 200 /\ req'[r].tier \in {"durable", "origin"})
                 => [url |-> Url(req'[r].in), resp |-> req'[r].resp[1]] \in edgePending'
        /\ \A t \in edgePending \ edgePending' :
             edge' = edge \/ \E e \in edge' : e.url = t.url /\ e.resp = t.resp
        /\ \A r \in Slots :
             (req[r].pc = "match" /\ req'[r].pc # "match"
                /\ EdgeMatch(Url(req[r].in)) # {} /\ req'[r].exc = "none")
                 => /\ req'[r].pc = "done" /\ req'[r].tier = "fast"
                    /\ req'[r].resp[1].status \in {200, 304}
                    /\ req'[r].nRaw = 0 /\ req'[r].lookups = <<>>
      ]_vars

\* a request answered from the fast tier with the response an origin fill had put there
C13_Witness ==
    \E r \in Slots, e \in edge :
        /\ Done(r) /\ req[r].tier = "fast" /\ Status(r) = 200
        /\ e.url = Url(req[r].in) /\ e.resp.cf = "R2_MISS"
        /\ req[r].resp[1] = [e.resp EXCEPT !.cf = "HIT"]

\* C14: a response composed from the durable tier or from an origin fill is
\* gzip-encoded only if the request's Accept names a script / stylesheet type, its
\* Accept-Encoding includes gzip, and the content served is not a .min variant.
C14_GzipOnlyIfNotMinified ==
    \A r \in Slots :
        (Done(r) /\ req[r].tier \in {"durable", "origin"} /\ Status(r) = 200
            /\ req[r].resp[1].encoding = "gzip")
            => /\ req[r].in.script /\ req[r].in.gzip
               /\ ~req[r].shouldMinify
               /\ ~BodyOf(r).data[1].min

\* C15: a request on which compression failed still ends 200 with the uncompressed
\* bytes and no Content-Encoding, on the durable-hit path and on the origin path.
C15_CompressionFailureServesPlain ==
    \A r \in Slots :
        (Done(r) /\ req[r].compress = "failed")
            => /\ Status(r) = 200
               /\ req[r].resp[1].encoding = "none"
               /\ BodyOf(r).kind = "file" /\ BodyOf(r).form = "plain"

\* C16: a 200 response to a request carrying ?download=true has an attachment
\* Content-Disposition; without the flag the value is inline.
C16_DownloadFlagGivesAttachment ==
    \A r \in Slots :
        (Done(r) /\ Status(r) = 200)
            => req[r].resp[1].disposition = IF req[r].in.download THEN "attachment" ELSE "inline"

\* C17: every 200 response, from the fast tier, the durable tier or an origin fill,
\* carries Cache-Control: public, max-age=31536000, immutable and
\* Access-Control-Allow-Origin: *.
C17_Every200HasImmutablePolicy ==
    \A r \in Slots :
        (Done(r) /\ Status(r) = 200)
            => /\ req[r].tier \in {"fast", "durable", "origin"}
               /\ req[r].resp[1].cacheControl = "public, max-age=31536000, immutable"
               /\ req[r].resp[1].allowOrigin = "*"

\* one request answered 200 by an origin fill and one answered 200 from the fast tier
C17_Witness ==
    \E r1 \in Slots, r2 \in Slots :
        /\ Done(r1) /\ Status(r1) = 200 /\ req[r1].tier = "origin"
        /\ Done(r2) /\ Status(r2) = 200 /\ req[r2].tier = "fast"
        /\ req[r2].resp[1].cacheControl = CACHE_CONTROL

\* C18: a request that is in the pipeline eventually leaves it, given that every
\* collaborator call it awaits returns or fails; it leaves with exactly one response,
\* whose status is 200 or 304 or a 4xx / 5xx, and holds no response before that.
C18_EveryRequestTerminates ==
    /\ [](\A r \in Slots :
            /\ Done(r) => (Len(req[r].resp) = 1 /\ Status(r) \in {200, 304, 404, 500})
            /\ ~Done(r) => req[r].resp = <<>>)
    /\ \A r \in Slots : (req[r].pc \notin {"idle", "done"}) ~> Done(r)

\* a request that went through every suspension point of the 'latest' path and returned
C18_Witness ==
    \E r \in Slots :
        /\ Done(r) /\ Status(r) = 200
        /\ req[r].nRel >= 1 /\ Len(req[r].lookups) = 2 /\ req[r].nRaw = 1

\* C19: no step of a request (its return included) removes a task from the background
\* work pending, and whatever durable put or fast-tier put is pending eventually
\* settles, stored or failed.
C19_BackgroundTasksSettle ==
    /\ [][ (\E r \in Slots : req'[r] # req[r])
              => (r2Pending \subseteq r2Pending' /\ edgePending \subseteq edgePending') ]_vars
    /\ (r2Pending # {}) ~> (r2Pending = {})
    /\ (edgePending # {}) ~> (edgePending = {})

\* a request has returned 200 and both tasks it dispatched are still pending
C19_Witness ==
    \E r \in Slots :
        /\ Done(r) /\ Status(r) = 200 /\ req[r].puts # <<>>
        /\ \E t \in r2Pending : t.key = FillKey(r)
        /\ \E t \in edgePending : t.url = Url(req[r].in) /\ t.resp = req[r].resp[1]

\* C20: a request sends at most one commit lookup and at most one raw-file fetch, and
\* the step in which a release lookup, a commit lookup or a raw-file fetch is seen to
\* have failed sends no further call of that kind.
C20_NoSourceHostCallIsRetried ==
    /\ [](\A r \in Slots : req[r].nCommit <= 1 /\ req[r].nRaw <= 1)
    /\ [][ \A r \in Slots :
              /\ (req[r].pc = "relwait" /\ req'[r].exc = "release")
                    => (req'[r].nRel = req[r].nRel /\ req'[r].pc = "done")
              /\ (req[r].pc = "commit" /\ req'[r].pc # "commit" /\ ~req'[r].isCommit)
                    => req'[r].nCommit = req[r].nCommit
              /\ (req[r].pc = "commit" /\ req'[r].pc = "commit")
                    => req'[r] = req[r]
              /\ (req[r].pc = "raw" /\ req'[r].exc = "origin")
                    => (req'[r].nRaw = req[r].nRaw /\ req'[r].pc = "done") ]_vars

\* a request whose commit lookup failed and whose raw-file fetch failed, each sent once
C20_Witness ==
    \E r \in Slots :
        /\ Done(r) /\ CommitLookupFailed(r) /\ req[r].exc = "origin"
        /\ req[r].nCommit = 1 /\ req[r].nRaw = 1 /\ Status(r) = 404

\* the ContentKey of a request past its path parsing, with the version segment of
\* its first durable lookup
ContentKey(r) == <<req[r].in.repo, req[r].in.version, req[r].filePath, req[r].shouldMinify>>

\* C21: two requests whose ContentKeys differ in repository, version segment, file
\* path or minified flag never look up the same durable-tier key.
C21_DurableKeyInjective ==
    \A r1 \in Slots, r2 \in Slots :
        (req[r1].lookups # <<>> /\ req[r2].lookups # <<>> /\ ContentKey(r1) # ContentKey(r2))
            => FirstLookup(r1) # FirstLookup(r2)

\* the inbound path with the '.min' of its .min.js / .min.css suffix taken out
WithoutTrailingMin(path) ==
    IF EndsWith(path, DotMinJs)
    THEN SubSeq(path, 1, Len(path) - Len(DotMinJs)) \o <<".">> \o ExtJs
    ELSE SubSeq(path, 1, Len(path) - Len(DotMinCss)) \o <<".">> \o ExtCss

\* C22: for an inbound path ending in .min.js or .min.css the minify flag is true and
\* the file path used downstream is the inbound path without that trailing '.min',
\* every other character unchanged; for any other path the flag is false and the
\* path is unchanged.
C22_TrailingMinStripped ==
    \A r \in Slots :
        req[r].lookups # <<>> =>
            IF EndsWith(req[r].in.path, DotMinJs) \/ EndsWith(req[r].in.path, DotMinCss)
            THEN req[r].shouldMinify /\ req[r].filePath = WithoutTrailingMin(req[r].in.path)
            ELSE ~req[r].shouldMinify /\ req[r].filePath = req[r].in.path

\* the tag a tag resolution works from: the release tag for 'latest', else the specifier
ResolvedTag(r) == IF req[r].in.version = LATEST THEN req[r].actualVersion ELSE req[r].in.version

TagResolution(r) == req[r].rawRef # <<>> /\ ~req[r].isCommit

\* C23 (as stated): the ref of the raw-file URL is the full SHA for a commit resolution;
\* for a tag resolution it is the tag with exactly one leading 'v', so that specifiers
\* X and vX fetch the same ref.
C23_TagRefHasExactlyOneV ==
    \A r \in Slots :
        /\ (req[r].rawRef # <<>> /\ req[r].isCommit) => req[r].rawRef = FullSha
        /\ TagResolution(r) =>
              /\ req[r].rawRef[1] = "v" /\ req[r].rawRef[2] # "v"
              /\ \A r2 \in Slots :
                    (TagResolution(r2) /\ ResolvedTag(r) = <<"v">> \o ResolvedTag(r2))
                        => req[r].rawRef = req[r2].rawRef

\* C23 (amended): for a tag resolution the ref is 'v' followed by the tag without its
\* first character if that is a 'v', the whole tag otherwise; specifiers X and vX fetch
\* the same ref whenever X does not itself begin with 'v'.
C23_TagRefIsVPlusStrippedTag ==
    \A r \in Slots :
        /\ (req[r].rawRef # <<>> /\ req[r].isCommit) => req[r].rawRef = FullSha
        /\ TagResolution(r) =>
              /\ req[r].rawRef = <<"v">> \o (IF ResolvedTag(r)[1] = "v" THEN Tail(ResolvedTag(r))
                                              ELSE ResolvedTag(r))
              /\ \A r2 \in Slots :
                    (TagResolution(r2) /\ ResolvedTag(r2)[1] # "v"
                        /\ ResolvedTag(r) = <<"v">> \o ResolvedTag(r2))
                        => req[r].rawRef = req[r2].rawRef

\* the tag 1.0.1 requested once without and once with its 'v', both filled from one ref
C23_Witness ==
    \E r1 \in Slots, r2 \in Slots :
        /\ Done(r1) /\ Status(r1) = 200 /\ req[r1].in.version = Tag5 /\ req[r1].tier = "origin"
        /\ Done(r2) /\ Status(r2) = 200 /\ req[r2].in.version = Tag6 /\ req[r2].tier = "origin"
        /\ req[r1].rawRef = Tag6 /\ req[r2].rawRef = Tag6

\* C24: the first durable lookup of a request uses the key built from the version
\* specifier as given; a request makes a second durable lookup only for 'latest', and
\* only in a step that follows a miss of the first; and no release lookup, commit
\* lookup or raw fetch is sent before the result of the first lookup is known.
C24_LiteralLookupFirst ==
    /\ [](\A r \in Slots :
            /\ req[r].lookups # <<>> =>
                  /\ FirstLookup(r) = req[r].in.repo \o <<"/">> \o req[r].in.version \o <<"/">>
                                        \o req[r].filePath
                                        \o (IF req[r].shouldMinify THEN <<".", "m", "i", "n">> ELSE <<>>)
                  /\ Len(req[r].lookups) <= 2
            /\ (Len(req[r].lookups) = 2 \/ req[r].pc = "r2latest") => req[r].in.version = LATEST
            /\ req[r].pc \in {"match", "r2get"}
                  => (req[r].nRel = 0 /\ req[r].nCommit = 0 /\ req[r].nRaw = 0))
    /\ [][ \A r \in Slots :
              (req[r].pc = "r2get" /\ req'[r].pc \in {"relwait", "r2latest", "commit", "raw"})
                  => BucketGet(req[r].lookups[1]) = {} ]_vars

\* a 'latest' request whose literal lookup missed and whose second lookup, under the
\* release tag, hit
C24_Witness ==
    \E r \in Slots :
        /\ Done(r) /\ req[r].in.version = LATEST /\ Len(req[r].lookups) = 2
        /\ req[r].tier = "durable" /\ Status(r) = 200
        /\ KeySegment2(req[r].lookups[1]) = LATEST /\ KeySegment2(req[r].lookups[2]) = TagV1

\* C25: a request answered 304 was answered by the conditional short-circuit on a
\* fast-tier hit: it carried If-None-Match, made no durable lookup, sent no release
\* lookup, commit lookup or raw fetch, ran neither minifier nor compressor, and
\* dispatched neither a durable put nor a fast-tier put.
C25_NotModifiedDoesNoWork ==
    \A r \in Slots :
        (Done(r) /\ Status(r) = 304)
            => /\ req[r].tier = "fast" /\ req[r].in.inm # <<>>
               /\ BodyOf(r) = NullBody
               /\ req[r].lookups = <<>> /\ req[r].r2Object = <<>>
               /\ req[r].nRel = 0 /\ req[r].nCommit = 0 /\ req[r].nRaw = 0
               /\ req[r].minify = "none" /\ req[r].compress = "none"
               /\ req[r].puts = <<>> /\ ~req[r].edgePut

C25_Witness ==
    \E r \in Slots, e \in edge :
        /\ Done(r) /\ Status(r) = 304
        /\ e.url = Url(req[r].in) /\ e.resp.etag = req[r].in.inm

\* a 'latest' request whose origin fill has dispatched its durable put
LatestFill(r) == req[r].in.version = LATEST /\ req[r].puts # <<>>

C27_ShortSpecifierSkipsCommitLookup ==
    \A r \in Slots :
        (req[r].lookups # <<>> /\ Len(req[r].in.version) < 7 /\ req[r].in.version # LATEST)
            => /\ req[r].nCommit = 0 /\ ~req[r].isCommit /\ req[r].nRel = 0
               /\ req[r].pc \in {"r2get", "raw", "done"}
               /\ Len(req[r].lookups) = 1
               /\ req[r].nRaw = 1 =>
                     /\ req[r].actualVersion = req[r].in.version
                     /\ req[r].rawRef = IF req[r].in.version[1] = "v" THEN req[r].in.version
                                        ELSE <<"v">> \o req[r].in.version

\* a 6-character tag, one short of the commit-lookup length, filled from origin
C27_Witness ==
    \E r \in Slots :
        /\ Done(r) /\ req[r].in.version = Tag6 /\ Len(req[r].in.version) = 6
        /\ req[r].nRaw = 1 /\ req[r].nCommit = 0 /\ Status(r) = 200 /\ req[r].tier = "origin"

\* the memo holds an entry for the repository whose age is CACHE_TTL or more
MemoStale == GITHUB_CACHE[Repo] # <<>> /\ now - GITHUB_CACHE[Repo][1].timestamp >= CACHE_TTL

\* C28: a step in which a request calls getLatestRelease while the memo entry is 5
\* minutes old or older sends the call to the source host instead of returning the
\* entry; a lookup that comes back successfully stores the host's answer; and the
\* memo changes in no other step and is never emptied.
C28_StaleMemoIsNeverReturned ==
    [][ /\ \A r \in Slots :
             (MemoStale /\ \/ (req[r].pc = "r2get" /\ req[r].in.version = LATEST
                                   /\ req'[r].pc \in {"relwait", "r2latest"})
                           \/ (req[r].pc = "r2latest" /\ req'[r].pc \in {"relwait", "raw"}))
                 => (req'[r].pc = "relwait" /\ req'[r].nRel = req[r].nRel + 1)
        /\ \A r \in Slots :
             (req[r].pc = "relwait" /\ req'[r].pc # "relwait" /\ req'[r].exc # "release")
                 => GITHUB_CACHE'[Repo] = <<[timestamp |-> req[r].relNow, data |-> latest]>>
        /\ GITHUB_CACHE' # GITHUB_CACHE
             => /\ GITHUB_CACHE'[Repo] # <<>>
                /\ \E r \in Slots : req[r].pc = "relwait" /\ req'[r].pc # "relwait"
      ]_vars

\* a release lookup in flight that was sent although the memo held an entry, 5
\* minutes old
C28_Witness ==
    \E r \in Slots :
        /\ req[r].pc = "relwait" /\ GITHUB_CACHE[Repo] # <<>>
        /\ req[r].relNow - GITHUB_CACHE[Repo][1].timestamp >= CACHE_TTL

\* C29: on a durable-tier hit answered 200, the response's ETag is the stored
\* object's own ETag.
C29_DurableHitPassesObjectETag ==
    \A r \in Slots :
        (Done(r) /\ req[r].tier = "durable" /\ Status(r) = 200)
            => req[r].resp[1].etag = <<HttpEtag(req[r].r2Object[1])>>

\* C30: a request that has dispatched a durable put is one whose origin fetch and
\* transform succeeded and that is answered 200; a request that ends in an error, or
\* is served from the fast tier or from a durable hit, has dispatched none.
C30_OnlySuccessfulFillsWrite ==
    \A r \in Slots :
        /\ req[r].puts # <<>> => (Done(r) /\ req[r].tier = "origin" /\ Status(r) = 200)
        /\ (Done(r) /\ (Status(r) # 200 \/ req[r].tier \in {"fast", "durable"}))
              => req[r].puts = <<>>

\* the durable key carries the minified marker
MinMarked(key) == EndsWith(key, DotMin)

\* C31: every object stored, or handed to a durable put, under a key with the
\* minified marker holds the minified form of the origin content.
C31_MinMarkedObjectsAreMinified ==
    /\ \A o \in bucket : MinMarked(o.key) => o.data.min
    /\ \A t \in r2Pending : MinMarked(t.key) => t.data.min

\* C32: on every 200 response Content-Encoding: gzip is present exactly when the body
\* is the gzip encoding of the content, and without the header the body is the
\* content as it is, on the origin-fill, durable-hit and fast-hit paths alike.
C32_EncodingHeaderMatchesBody ==
    \A r \in Slots :
        (Done(r) /\ Status(r) = 200)
            => /\ BodyOf(r).kind = "file"
               /\ req[r].resp[1].encoding = "gzip" <=> BodyOf(r).form = "gzip"
               /\ req[r].resp[1].encoding = "none" => BodyOf(r).form = "plain"

\* C35: a 200 response carrying Content-Encoding: gzip is returned only to a request
\* whose Accept-Encoding includes gzip, on every path.
C35_GzipOnlyToAcceptingRequest ==
    \A r \in Slots :
        (Done(r) /\ Status(r) = 200 /\ req[r].resp[1].encoding = "gzip") => req[r].in.gzip

\* C36: under any interleaving of latest-release lookups for the repository, the memo
\* entry's timestamp never decreases, and the memo never moves from the result of a
\* later-started lookup to the result of an earlier-started one.
C36_MemoTimestampMonotone ==
    [][ GITHUB_CACHE[Repo] # <<>>
          => /\ GITHUB_CACHE'[Repo] # <<>>
             /\ GITHUB_CACHE'[Repo][1].timestamp >= GITHUB_CACHE[Repo][1].timestamp ]_vars

\* C37: in a 'latest' request that missed the durable tier and went on to the origin,
\* the release tag of the second durable-lookup key is the tag the origin fetch uses
\* and the version segment of the durable write key.
C37_OneTagPerLatestRequest ==
    \A r \in Slots :
        (req[r].in.version = LATEST /\ Len(req[r].lookups) = 2 /\ req[r].rawRef # <<>>)
            => /\ req[r].rawRef = KeySegment2(req[r].lookups[2])
               /\ req[r].puts # <<>> => KeySegment2(FillKey(r)) = KeySegment2(req[r].lookups[2])

\* request q was filled from the origin and answered 200, and the object its fill
\* wrote is in the durable tier
FillStored(q) ==
    /\ Done(q) /\ Status(q) = 200 /\ req[q].tier = "origin" /\ req[q].puts # <<>>
    /\ \E o \in bucket : o.key = FillKey(q)
    /\ ~\E t \in r2Pending : t.key = FillKey(q)

\* request r goes on towards the origin in this step, its durable lookups having missed
GoesToOrigin(r) ==
    \/ /\ req[r].pc = "r2get" /\ req[r].in.version # LATEST
       /\ req'[r].pc \in {"commit", "raw"}
    \/ /\ req[r].pc = "r2latest"
       /\ req'[r].pc \in {"relwait", "raw"}

\* C33: once the durable write of a successful origin fill for a URL has completed, a
\* later request for the same URL that misses the fast tier does not go on to the
\* origin: its durable lookup hits (the release unchanged, for 'latest').
C33_ReadYourFill ==
    [][ \A r \in Slots, q \in Slots :
          (q # r /\ FillStored(q) /\ Url(req[q].in) = Url(req[r].in)
               /\ (req[r].in.version = LATEST => req[q].rawRef = latest /\ req[r].latestTag = <<latest>>))
              => ~GoesToOrigin(r) ]_vars

\* C38: the durable tier only receives uncompressed content: no durable put, pending
\* or settled, carries gzip-encoded bytes, whatever headers the filling request had.
C38_DurablePutsAreUncompressed ==
    /\ \A t \in r2Pending : t.form = "plain"
    /\ \A o \in bucket : o.form = "plain"

\* a script request accepting gzip was filled from the origin and answered with a
\* gzip-encoded body, and the object its fill wrote is stored
C38_Witness ==
    \E r \in Slots, o \in bucket :
        /\ Done(r) /\ Status(r) = 200 /\ req[r].tier = "origin"
        /\ req[r].in.script /\ req[r].in.gzip /\ req[r].resp[1].encoding = "gzip"
        /\ o.key = FillKey(r) /\ o.form = "plain"

\* C39: a step in which a release lookup fails leaves the memo as it was and ends the
\* request with a not-found error, no raw fetch sent; and a request that leaves a
\* release lookup without failing carries the tag the host answered, which is then
\* the memo's entry: an entry already in the memo is never used in place of a failed
\* refresh.
C39_FailedLookupFailsResolution ==
    [][ \A r \in Slots :
          /\ (req[r].pc = "relwait" /\ req'[r].exc = "release")
                => /\ GITHUB_CACHE' = GITHUB_CACHE
                   /\ req'[r].pc = "done" /\ req'[r].resp[1].status = 404
                   /\ req'[r].nRaw = req[r].nRaw /\ req'[r].puts = <<>>
          /\ (req[r].pc = "relwait" /\ req'[r].pc # "relwait" /\ req'[r].exc # "release")
                => /\ GITHUB_CACHE'[Repo] = <<[timestamp |-> req[r].relNow, data |-> latest]>>
                   /\ req[r].relFor = "fetch" => req'[r].latestTag = <<latest>>
                   /\ req[r].relFor = "gh" => req'[r].rawRef = latest
      ]_vars

\* the first request resolved the release and was served; the second, started after
\* it, sent a lookup of its own although the memo held an entry, and that lookup
\* failed; the entry is still there, expired and untouched
C39_Witness ==
    /\ Done(1) /\ Status(1) = 200 /\ req[1].in.version = LATEST /\ req[1].nRel >= 1
    /\ Done(2) /\ ~req[2].overlap /\ req[2].nRel >= 1
    /\ req[2].exc = "release" /\ Status(2) = 404
    /\ MemoStale

\* C40: only 200 responses are put into the fast tier: every cache.put, pending or
\* settled, carries a 200 response; a request answered 304, 400, 404 or 500 has
\* dispatched none; and a fast-tier hit never answers with an error.
C40_OnlyOkResponsesAreCached ==
    /\ \A t \in edgePending : t.resp.status = 200
    /\ \A e \in edge : e.resp.status = 200
    /\ \A r \in Slots :
          /\ (Done(r) /\ Status(r) # 200) => ~req[r].edgePut
          /\ (Done(r) /\ req[r].tier = "fast") => Status(r) \in {200, 304}

\* the first request failed at the origin and was answered 404; the second, for the
\* same URL and started after it, was not answered from the fast tier but filled
\* from the origin
C40_Witness ==
    /\ Done(1) /\ Status(1) = 404 /\ req[1].exc = "origin" /\ ~req[1].edgePut
    /\ Done(2) /\ ~req[2].overlap /\ Url(req[2].in) = Url(req[1].in)
    /\ Status(2) = 200 /\ req[2].tier = "origin"

\* five minutes or more have passed since the latest release changed
TtlSinceRelease == publishedAt # <<>> /\ now - publishedAt[1] >= CACHE_TTL

\* C34: once the memo TTL has elapsed since the latest release changed, a 'latest'
\* request answered 200 from the fast tier carries the content of the new release,
\* and a 'latest' request that resolves the release, from the memo or from the host,
\* gets the new release's tag for its second durable lookup and for its origin fetch.
C34_LatestFollowsRelease ==
    [][ \A r \in Slots :
          (TtlSinceRelease /\ req[r].in.version = LATEST)
              => /\ (req[r].pc = "match" /\ req'[r].pc = "done" /\ req'[r].resp[1].status = 200)
                       => req'[r].resp[1].body.data[1].ref = latest
                 /\ (req[r].latestTag = <<>> /\ req'[r].latestTag # <<>>) => req'[r].latestTag = <<latest>>
                 /\ (req[r].rawRef = <<>> /\ req'[r].rawRef # <<>>) => req'[r].rawRef = latest
      ]_vars

====
